---- MODULE Spec2Model ----
(***************************************************************************)
(* The stats-collection pipeline of src/scheduler.py: the periodic run     *)
(* fetch_all_stats (batches of students on a thread pool), the on-demand   *)
(* fetch_student_stats, the per-platform retry loops _fetch_*_stats and    *)
(* the snapshot writes, against the students and stats_snapshots tables    *)
(* of src/models.py.                                                       *)
(***************************************************************************)
EXTENDS Integers, Sequences, FiniteSets, TLC

\* ---------------------------------------------------------------- bounds
MaxFaults == 4        \* adapter failures and store rejections of one behaviour
MaxCycles == 2        \* periodic runs and on-demand fetches of one behaviour
MaxRoster == 12       \* students in the tables of the batch-level specification
ScenarioRoster == 23  \* and the roster size of the specification's scenario
MaxBatchFaults == 1   \* adapter failures and store rejections there
HandledEvery == 7     \* there, every HandledEvery-th student has a handle
RunRoster == 11       \* students in the table of the run-level specification
MaxRunFaults == 4     \* adapter failures and store rejections there
MaxTime == 2          \* the clock readings (days) of the query-level specification
MaxDays == 2          \* the day-windows asked of get_stats_history there
MaxSubmissions == 2   \* submissions in an answer of user.status, and problems
MaxStats == 2         \* entries of acSubmissionNum in an answer of LeetCode
MaxCount == 2         \* and the counts they carry
MaxRegistered == 3    \* students in the table of the registration-level specification
MaxRegisterFaults == 1 \* adapter failures and store rejections there
MaxBoardFaults == 3   \* adapter failures and store rejections of the
                      \* leaderboard-level specification
MaxFairFaults == 3    \* adapter failures and store rejections of the fetch-level
                      \* specification with scheduling
MaxAdapterFaults == 4 \* failed fetches and store rejections of the adapter-level
                      \* specification

\* ------------------------------------------------------ program constants
MaxRetries == 3       \* max_retries
RetryDelay == 2       \* time.sleep(2) between attempts
BatchSize == 10       \* batch_size
BatchDelay == 2       \* time.sleep(2) between batches

MaxWorkersWide == 5 + 1
MaxWorkers == 5       \* ThreadPoolExecutor(max_workers=5)

\* The platforms in the order _fetch_student_all_platforms visits them.
Platforms == <<"CF", "LC", "CC">>
PlatformSet == {"CF", "LC", "CC"}
NoPlatform == Len(Platforms) + 1

\* A handle column holds None, the empty string or a user name.
HandleValues == {"None", "", "user"}

\* `if student.cf_handle:` -- Python truthiness of the column.
HasHandleAlways(v) == v # "None"
HasHandle(v) == v \notin {"None", ""}

\* ------------------------------------------------------------- adapters
\* Python None (JSON null, SQL NULL) and a key that is not in the dict, in
\* the places that otherwise hold a number; text that int() rejects.
Null == 0 - 1
Missing == 0 - 2
NotANumber == 0 - 3

\* What an adapter hands to its caller: its dict, None, or an exception.
\* The dict has the keys that are not Missing, of the keys the scheduler
\* reads.
NoData == [rating |-> Missing, max_rating |-> Missing, solved |-> Missing,
           total_solved |-> Missing, easy |-> Missing, medium |-> Missing,
           hard |-> Missing]
ReturnData(d) == [kind |-> "data", data |-> d, exc |-> "None"]
ReturnNone == [kind |-> "none", data |-> NoData, exc |-> "None"]

\* The exception classes the except clauses of get_user_info and of
\* LeetCodeAPI.get_user_stats name; a JSON decoding error is a ValueError.
Caught == {"RequestException", "KeyError", "ValueError", "IndexError"}

\* An exception of class e is raised inside the adapter's try block.
Except(e) ==
    IF e \in Caught THEN ReturnNone
    ELSE [kind |-> "raise", data |-> NoData, exc |-> e]

\* dict.get(key, 0)
Get(d, key) == IF d[key] = Missing THEN 0 ELSE d[key]

\* The body of the loop over submissions_data['result'] for one submission:
\* the exception it raises, if any.
SubmissionFault(sub) ==
    IF sub.shape # "object" THEN "AttributeError"
    ELSE IF sub.verdict # "OK" THEN "None"
    ELSE IF sub.problem = "absent" THEN "KeyError"
    ELSE IF sub.problem = "null" THEN "TypeError"
    ELSE IF sub.contestId = Missing \/ sub.index = "absent" THEN "KeyError"
    ELSE "None"

\* solved_problems: the set of f"{contestId}{index}" over the accepted
\* submissions (a pair stands for the concatenation).
SolvedProblems(items) ==
    {<<items[i].contestId, items[i].index>> :
        i \in {j \in DOMAIN items : items[j].verdict = "OK"}}

\* len(solved_problems): the loop over the submissions runs only `if
\* submissions_response.status_code == 200` and `if submissions_data['status']
\* == 'OK'`.
SolvedCountAnyStatus(h) == Cardinality(SolvedProblems(h.body.items))
SolvedCount(h) ==
    IF h.code = 200 /\ h.body.status = "OK"
    THEN Cardinality(SolvedProblems(h.body.items)) ELSE 0

\* CodeforcesAPI.get_user_info over the two exchanges x.profile (user.info)
\* and x.history (user.status).
CodeforcesGetUserInfo(x) ==
    LET p == x.profile
        h == x.history
        subs == h.body.items
        bad == {i \in DOMAIN subs : SubmissionFault(subs[i]) # "None"}
        first == CHOOSE i \in bad : \A j \in bad : i <= j
        user == p.body.items[1]
    IN  IF p.net = "error" THEN Except("RequestException")
        ELSE IF p.code # 200 THEN ReturnNone
        ELSE IF p.body.shape = "notjson" THEN Except("ValueError")
        ELSE IF p.body.shape # "object" THEN Except("TypeError")
        ELSE IF p.body.status = "absent" THEN Except("KeyError")
        ELSE IF p.body.status # "OK" THEN ReturnNone
        ELSE IF p.body.result = "absent" THEN Except("KeyError")
        ELSE IF p.body.result = "null" THEN Except("TypeError")
        ELSE IF p.body.items = <<>> THEN Except("IndexError")
        ELSE IF h.net = "error" THEN Except("RequestException")
        ELSE IF h.code = 200 /\ h.body.shape = "notjson" THEN Except("ValueError")
        ELSE IF h.code = 200 /\ h.body.shape # "object" THEN Except("TypeError")
        ELSE IF h.code = 200 /\ h.body.status = "absent" THEN Except("KeyError")
        ELSE IF h.code = 200 /\ h.body.status = "OK" /\ h.body.result = "absent"
             THEN Except("KeyError")
        ELSE IF h.code = 200 /\ h.body.status = "OK" /\ h.body.result = "null"
             THEN Except("TypeError")
        ELSE IF h.code = 200 /\ h.body.status = "OK" /\ bad # {}
             THEN Except(SubmissionFault(subs[first]))
        ELSE IF user.shape # "object" THEN Except("AttributeError")
        ELSE ReturnData([NoData EXCEPT
                 !.rating = IF user.rating = Missing THEN 0 ELSE user.rating,
                 !.max_rating = IF user.maxRating = Missing THEN 0 ELSE user.maxRating,
                 !.solved = SolvedCount(h)])

\* The count of the last entry of acSubmissionNum with the difficulty, or 0.
CountOf(stats, difficulty) ==
    LET at == {i \in DOMAIN stats : stats[i].difficulty = difficulty}
    IN  IF at = {} THEN 0
        ELSE stats[CHOOSE i \in at : \A j \in at : i >= j].count

\* LeetCodeAPI.get_user_stats over the GraphQL exchange x.
LeetCodeGetUserStats(x) ==
    LET b == x.body
        bad == {i \in DOMAIN b.stats :
                   b.stats[i].difficulty = "absent" \/ b.stats[i].count = Missing}
    IN  IF x.net = "error" THEN Except("RequestException")
        ELSE IF x.code # 200 THEN ReturnNone
        ELSE IF b.shape = "notjson" THEN Except("ValueError")
        ELSE IF b.shape = "null" THEN Except("TypeError")
        ELSE IF b.shape = "list" THEN Except("AttributeError")
        ELSE IF b.errors THEN ReturnNone
        ELSE IF b.data = "absent" THEN ReturnNone
        ELSE IF b.data = "null" THEN Except("AttributeError")
        ELSE IF b.matchedUser # "object" THEN ReturnNone
        ELSE IF b.submitStats = "absent" THEN Except("KeyError")
        ELSE IF b.submitStats = "null" THEN Except("TypeError")
        ELSE IF b.ac = "absent" THEN Except("KeyError")
        ELSE IF b.ac = "null" THEN Except("TypeError")
        ELSE IF bad # {} THEN Except("KeyError")
        ELSE IF b.username = "absent" THEN Except("KeyError")
        ELSE IF b.profile = "null" THEN Except("AttributeError")
        ELSE ReturnData([NoData EXCEPT
                 !.total_solved = CountOf(b.stats, "All"),
                 !.easy = CountOf(b.stats, "Easy"),
                 !.medium = CountOf(b.stats, "Medium"),
                 !.hard = CountOf(b.stats, "Hard")])

\* CodeChefAPI.get_user_stats over the exchange x for the profile page: the
\* rating from the rating-number element, else from the "Rating:" text; the
\* solved count from the problems-solved section, else from the "Fully
\* Solved" heading, else from a script; None when neither was found and the
\* page has no user-details container.  Every exception ends in None.
CodeChefGetUserStats(x) ==
    LET r1 == IF x.ratingDiv \in {Missing, NotANumber} THEN 0 ELSE x.ratingDiv
        rating == IF r1 = 0 /\ x.ratingText # Missing THEN x.ratingText ELSE r1
        s1 == IF x.solvedSection = Missing THEN 0 ELSE x.solvedSection
        s2 == IF s1 = 0 /\ x.fullySolved \notin {Missing, NotANumber}
              THEN x.fullySolved ELSE s1
        solved == IF s2 = 0 /\ x.script # Missing THEN x.script ELSE s2
    IN  IF x.net = "error" THEN ReturnNone
        ELSE IF x.code # 200 THEN ReturnNone
        ELSE IF x.parserRaises THEN ReturnNone
        ELSE IF rating = 0 /\ solved = 0 /\ ~x.userDetails THEN ReturnNone
        ELSE ReturnData([NoData EXCEPT !.rating = rating, !.solved = solved])

\* The adapter call of _fetch_<platform>_stats.
Fetch(p, x) ==
    IF p = "CF" THEN CodeforcesGetUserInfo(x)
    ELSE IF p = "LC" THEN LeetCodeGetUserStats(x)
    ELSE CodeChefGetUserStats(x)

\* ------------------------------------------------------------ responses
\* An exchange with a JSON API: the transport failed, or a response with a
\* status code and a body arrived.
Body(shape, status, result, items) ==
    [shape |-> shape, status |-> status, result |-> result, items |-> items]
Object(status, result, items) == Body("object", status, result, items)
NotJson == Body("notjson", "absent", "absent", <<>>)
JsonNull == Body("null", "absent", "absent", <<>>)
Http(code, body) == [net |-> "ok", code |-> code, body |-> body]
TransportError == [net |-> "error", code |-> 0, body |-> NotJson]

\* An element of the result of user.info.
User(r, m) == [shape |-> "object", rating |-> r, maxRating |-> m]
NotAUser == [shape |-> "string", rating |-> Missing, maxRating |-> Missing]

\* An element of the result of user.status.
Submission(verdict, problem, contestId, index) ==
    [shape |-> "object", verdict |-> verdict, problem |-> problem,
     contestId |-> contestId, index |-> index]
NotASubmission ==
    [shape |-> "string", verdict |-> "absent", problem |-> "absent",
     contestId |-> Missing, index |-> "absent"]
Accepted(k) == Submission("OK", "object", k, "A")

\* The sequences over S of length at most n.
SeqUpTo(S, n) == UNION {[1..k -> S] : k \in 0..n}

\* The answers to user.info.
GoodProfiles ==
    { Http(200, Object("OK", "list", <<u>>)) :
        u \in {User(1500, 1600), User(Missing, Missing), User(0, Null), NotAUser} }
BadProfiles ==
    { TransportError, Http(404, NotJson), Http(200, NotJson), Http(200, JsonNull),
      Http(200, Object("absent", "absent", <<>>)),
      Http(400, Object("FAILED", "absent", <<>>)),
      Http(200, Object("FAILED", "absent", <<>>)),
      Http(200, Object("OK", "absent", <<>>)),
      Http(200, Object("OK", "null", <<>>)),
      Http(200, Object("OK", "list", <<>>)) }

\* The answers to user.status: submissions of at most MaxSubmissions
\* problems.
Submissions ==
    {Accepted(k) : k \in 1..MaxSubmissions}
    \cup { Submission("WRONG_ANSWER", "object", 1, "A"),
           Submission("WRONG_ANSWER", "absent", Missing, "absent"),
           Submission("OK", "absent", Missing, "absent"),
           Submission("OK", "null", Missing, "absent"),
           Submission("OK", "object", Missing, "A"),
           NotASubmission }
Histories ==
    { TransportError, Http(503, NotJson), Http(200, NotJson), Http(200, JsonNull),
      Http(200, Object("absent", "absent", <<>>)),
      Http(400, Object("FAILED", "absent", <<>>)),
      Http(200, Object("FAILED", "absent", <<>>)),
      Http(200, Object("FAILED", "list", <<Accepted(1)>>)),
      Http(503, Object("OK", "list", <<Accepted(1)>>)),
      Http(200, Object("OK", "absent", <<>>)),
      Http(200, Object("OK", "null", <<>>)) }
    \cup { Http(200, Object("OK", "list", q)) : q \in SeqUpTo(Submissions, MaxSubmissions) }

\* The student with rating 1500, highest rating 1600 and 42 accepted problems.
ScenarioCF ==
    [profile |-> Http(200, Object("OK", "list", <<User(1500, 1600)>>)),
     history |-> Http(200, Object("OK", "list", [k \in 1..42 |-> Accepted(k)]))]

CodeforcesResponses ==
    { [profile |-> p, history |-> h] : p \in GoodProfiles, h \in Histories }
    \cup { [profile |-> p, history |-> TransportError] : p \in BadProfiles }
    \cup { ScenarioCF }

\* The answers of the GraphQL endpoint.
Graph(shape, errors, data, matchedUser, username, submitStats, ac, stats, profile) ==
    [shape |-> shape, errors |-> errors, data |-> data, matchedUser |-> matchedUser,
     username |-> username, submitStats |-> submitStats, ac |-> ac,
     stats |-> stats, profile |-> profile]
NoGraph(shape) ==
    Graph(shape, FALSE, "absent", "absent", "absent", "absent", "absent", <<>>, "absent")
Matched(username, submitStats, ac, stats, profile) ==
    Graph("object", FALSE, "object", "object", username, submitStats, ac, stats, profile)
Stat(difficulty, count) == [difficulty |-> difficulty, count |-> count]
Stats ==
    { Stat(d, c) : d \in {"All", "Easy", "Medium", "Hard"}, c \in 1..MaxCount }
    \cup { Stat("absent", 1), Stat("All", Missing) }
LeetCodeResponses ==
    { [net |-> "error", code |-> 0, body |-> NoGraph("notjson")],
      Http(403, NoGraph("notjson")), Http(200, NoGraph("notjson")),
      Http(200, NoGraph("null")), Http(200, NoGraph("list")),
      Http(200, NoGraph("object")),
      Http(200, Graph("object", TRUE, "absent", "absent", "absent", "absent",
                      "absent", <<>>, "absent")),
      Http(200, Graph("object", TRUE, "object", "null", "absent", "absent",
                      "absent", <<>>, "absent")),
      Http(200, Graph("object", FALSE, "null", "absent", "absent", "absent",
                      "absent", <<>>, "absent")),
      Http(200, Graph("object", FALSE, "object", "absent", "absent", "absent",
                      "absent", <<>>, "absent")),
      Http(200, Graph("object", FALSE, "object", "null", "absent", "absent",
                      "absent", <<>>, "absent")),
      Http(200, Matched("user", "absent", "absent", <<>>, "object")),
      Http(200, Matched("user", "null", "absent", <<>>, "object")),
      Http(200, Matched("user", "object", "absent", <<>>, "object")),
      Http(200, Matched("user", "object", "null", <<>>, "object")),
      Http(200, Matched("absent", "object", "list", <<>>, "object")),
      Http(200, Matched("user", "object", "list", <<>>, "null")),
      Http(200, Matched("user", "object", "list", <<>>, "absent")) }
    \cup { Http(200, Matched("user", "object", "list", q, "object")) :
             q \in SeqUpTo(Stats, MaxStats) }

\* The answers of the profile page.
Page(ratingDiv, ratingText, solvedSection, fullySolved, script, userDetails) ==
    [net |-> "ok", code |-> 200, parserRaises |-> FALSE,
     ratingDiv |-> ratingDiv, ratingText |-> ratingText,
     solvedSection |-> solvedSection, fullySolved |-> fullySolved,
     script |-> script, userDetails |-> userDetails]
EmptyPage == Page(Missing, Missing, Missing, Missing, Missing, FALSE)
CodeChefResponses ==
    { [EmptyPage EXCEPT !.net = "error", !.code = 0],
      [EmptyPage EXCEPT !.code = 404],
      [EmptyPage EXCEPT !.parserRaises = TRUE] }
    \cup { Page(rd, rt, ss, fs, sc, ud) :
             rd \in {Missing, NotANumber, 0, 1500}, rt \in {Missing, 1400},
             ss \in {Missing, 0, 7}, fs \in {Missing, NotANumber, 5},
             sc \in {Missing, 3}, ud \in BOOLEAN }

Responses(p) ==
    IF p = "CF" THEN CodeforcesResponses
    ELSE IF p = "LC" THEN LeetCodeResponses
    ELSE CodeChefResponses

\* What the platforms answer in the pipeline's specifications: the user's
\* data, or a server error, or (Codeforces, LeetCode) the body `null`.
GoodCF ==
    [profile |-> Http(200, Object("OK", "list", <<User(1500, 1600)>>)),
     history |-> Http(200, Object("OK", "list", <<Accepted(1)>>))]
DownCF == [profile |-> Http(404, NotJson), history |-> TransportError]
NullCF == [profile |-> Http(200, JsonNull), history |-> TransportError]
GoodLC ==
    Http(200, Matched("user", "object", "list", <<Stat("All", 1), Stat("Easy", 1)>>,
                      "object"))
DownLC == Http(403, NoGraph("notjson"))
NullLC == Http(200, NoGraph("null"))
GoodCC == Page(1500, Missing, 7, Missing, Missing, TRUE)
DownCC == [EmptyPage EXCEPT !.code = 404]
DefaultWeb ==
    [p \in PlatformSet |->
        IF p = "CF" THEN {GoodCF, DownCF, NullCF}
        ELSE IF p = "LC" THEN {GoodLC, DownLC, NullLC}
        ELSE {GoodCC, DownCC}]

VARIABLES
    students,   \* the students table: student id (1..n) -> handle columns
    snapshots,  \* the stats_snapshots table: per student and platform, the rows
                \* in insertion order
    roster,     \* fetch_all_stats: the list Student.query.all() returned
    phase,      \* fetch_all_stats: "idle", "submit", "wait", "pause"
    bi,         \* fetch_all_stats: the loop variable i
    task,       \* one orchestration per roster place (1..n) and the on-demand one (0)
    trace,      \* per orchestration and platform: adapter calls, delays, store faults
    batchLog,   \* the batches the current run has submitted, in order
    pauseLog,   \* the inter-batch pauses of the current run
    runResult,  \* how the last periodic run ended
    odResult,   \* what the last fetch_student_stats returned
    cycles,     \* fetch cycles begun
    budget,     \* faults the environment may still inject
    callLog,    \* the entry points called so far, in order
    now,        \* the clock datetime.utcnow() reads, in days
    timer,      \* the BackgroundScheduler: "on" (running) or "stopped"
    result,     \* what the last query of the snapshots returned, while the
                \* table and the clock are as the query saw them
    web         \* per platform, the answers its servers may give for the user

vars == <<students, snapshots, roster, phase, bi, task, trace, batchLog,
          pauseLog, runResult, odResult, cycles, budget, callLog, now, timer, result,
          web>>

Tasks == 0..Len(students)
OnDemand == 0

IdleTask == [st |-> "idle", student |-> 0, plat |-> NoPlatform, attempt |-> 0,
             pc |-> "end", cycle |-> 0, starts |-> 0, exc |-> FALSE]

EmptyTrace == [p \in PlatformSet |-> <<>>]

\* What is observed of a fetch: the adapter's answer (its dict, None, or the
\* exception with its text), a delay, a write the store rejected.
Ev(k) == [kind |-> k, dur |-> 0, data |-> NoData, exc |-> "None"]
OutcomeEv(out) == [kind |-> out.kind, dur |-> 0, data |-> out.data, exc |-> out.exc]
SleepEv == [kind |-> "sleep", dur |-> RetryDelay, data |-> NoData, exc |-> "None"]

\* ------------------------------------------------------------ snapshots
\* StatsSnapshot(..., fetch_status='success'), error_message left NULL; the
\* timestamp column takes its default, datetime.utcnow.
\* The columns are filled from the adapter's dict d: rating, max_rating and
\* solved for Codeforces; solved=data.get('total_solved', 0), easy, medium,
\* hard and rating=None for LeetCode; rating and solved for CodeChef.  A
\* column that is not passed is NULL.
SuccessSnapshotOneRating(s, p, c, d) ==
    [student |-> s, platform |-> p, status |-> "success", error |-> "None",
     timestamp |-> now, cycle |-> c,
     rating |-> IF p = "LC" THEN Null ELSE Get(d, "rating"),
     max_rating |-> IF p = "CF" THEN Get(d, "rating") ELSE Null,
     solved |-> Get(d, "solved"),
     easy |-> IF p = "LC" THEN Get(d, "easy") ELSE Null,
     medium |-> IF p = "LC" THEN Get(d, "medium") ELSE Null,
     hard |-> IF p = "LC" THEN Get(d, "hard") ELSE Null]
SuccessSnapshot(s, p, c, d) ==
    [student |-> s, platform |-> p, status |-> "success", error |-> "None",
     timestamp |-> now, cycle |-> c,
     rating |-> IF p = "LC" THEN Null ELSE Get(d, "rating"),
     max_rating |-> IF p = "CF" THEN Get(d, "max_rating") ELSE Null,
     solved |-> IF p = "LC" THEN Get(d, "total_solved") ELSE Get(d, "solved"),
     easy |-> IF p = "LC" THEN Get(d, "easy") ELSE Null,
     medium |-> IF p = "LC" THEN Get(d, "medium") ELSE Null,
     hard |-> IF p = "LC" THEN Get(d, "hard") ELSE Null]

\* StatsSnapshot(..., fetch_status='failed', error_message=error_message, solved=0)
FailedSnapshot(s, p, msg, c) ==
    [student |-> s, platform |-> p, status |-> "failed", error |-> msg,
     timestamp |-> now, cycle |-> c,
     rating |-> Null, max_rating |-> Null, solved |-> 0,
     easy |-> Null, medium |-> Null, hard |-> Null]

\* db.session.add(snapshot); db.session.commit(): the rows of the pair after
\* the write of the rows `new` (none, when the store rejected the write).
StoreUpsert(rows, new) == IF new = <<>> THEN rows ELSE new
StoreAppend(rows, new) == rows \o new

\* None where a query has no row to return.
NoRow == [student |-> 0, platform |-> "None", status |-> "None", error |-> "None",
          timestamp |-> 0, cycle |-> 0,
          rating |-> Null, max_rating |-> Null, solved |-> Null,
          easy |-> Null, medium |-> Null, hard |-> Null]

\* No query has been made.
NoResult == [op |-> "none", student |-> 0, platform |-> "None", days |-> 0,
             row |-> NoRow, rows |-> <<>>, board |-> <<>>]

\* The literal the else-branch passes to _save_failed_snapshot.
NoDataMessageEmpty == ""
NoDataMessage == "Failed to fetch data"

\* str(e) of the exception the except-branch caught.
ExcMessageGeneric(e) == NoDataMessage
ExcMessage(e) == e

\* `if attempt < max_retries - 1:` is false: no sleep, no further attempt.
LastAttemptLate(a) == a >= MaxRetries
LastAttempt(a) == a >= MaxRetries - 1

\* _save_failed_snapshot: the write is accepted; or commit raises and the
\* rollback goes through (the function returns normally, nothing stored); or
\* the rollback raises too and the exception leaves the function.
SaveFailedDeferred(s, p, msg, c) ==
    { [snaps |-> <<>>, events |-> <<>>, raised |-> FALSE, cost |-> 0] }
SaveFailed(s, p, msg, c) ==
    { [snaps |-> <<FailedSnapshot(s, p, msg, c)>>, events |-> <<>>,
       raised |-> FALSE, cost |-> 0],
      [snaps |-> <<>>, events |-> <<Ev("reject")>>, raised |-> FALSE, cost |-> 1],
      [snaps |-> <<>>, events |-> <<Ev("reject"), Ev("rbfail")>>,
       raised |-> TRUE, cost |-> 1] }

\* The except-branch of one loop iteration, entered with exception text e
\* after the events ev at cost k.
ExceptBranch(s, p, a, c, e, ev, k) ==
    IF ~LastAttempt(a)
    THEN {[events |-> ev, snaps |-> <<>>, next |-> "sleep", cost |-> k]}
    ELSE {[events |-> ev \o r.events, snaps |-> r.snaps,
           next |-> IF r.raised THEN "raise" ELSE "fallthrough",
           cost |-> k + r.cost] : r \in SaveFailed(s, p, ExcMessage(e), c)}

\* What the success branch does after the commit went through.
AfterCommitContinue == "fallthrough"
AfterCommit == "return"

\* One iteration of the retry loop of _fetch_<platform>_stats, attempt a,
\* in which the adapter answers with `out`:
\* every way the store can answer, with what is stored,
\* what is observed, and how the iteration leaves ("return": the function
\* returns; "sleep": time.sleep(2) then continue; "fallthrough": the body
\* ends and the for statement goes on; "raise": an exception leaves the
\* function).
AttemptResults(s, p, a, c, out) ==
    IF out.kind = "data"
    THEN \* the adapter returned data and the commit went through
         {[events |-> <<OutcomeEv(out)>>,
           snaps |-> <<SuccessSnapshot(s, p, c, out.data)>>,
           next |-> AfterCommit, cost |-> 0]}
         \cup
         \* the adapter returned data and db.session.add/commit raised
         ExceptBranch(s, p, a, c, "store error", <<OutcomeEv(out), Ev("reject")>>, 1)
    ELSE IF out.kind = "raise"
    THEN \* the adapter raised
         ExceptBranch(s, p, a, c, out.exc, <<OutcomeEv(out)>>, 1)
    ELSE \* the adapter returned None
     (IF ~LastAttempt(a)
      THEN {[events |-> <<OutcomeEv(out)>>, snaps |-> <<>>, next |-> "sleep",
             cost |-> 1]}
      ELSE UNION {
        IF ~r.raised
        THEN {[events |-> <<OutcomeEv(out)>> \o r.events, snaps |-> r.snaps,
               next |-> "fallthrough", cost |-> 1 + r.cost]}
        ELSE \* _save_failed_snapshot raised inside the try: the except-branch
             \* catches it and, on the last attempt, saves once more
             ExceptBranch(s, p, a, c, "rollback error",
                          <<OutcomeEv(out)>> \o r.events, 1 + r.cost)
        : r \in SaveFailed(s, p, NoDataMessage, c)})

\* --------------------------------------------------------- orchestration
\* The next platform after place k whose handle guard (`if student.cf_handle:`
\* and its siblings) holds, or NoPlatform when the function has no more to do.
NextPlatLast(stu, k) ==
    LET later == {j \in (k + 1)..Len(Platforms) : HasHandle(stu[Platforms[j]])}
    IN  IF later = {} THEN NoPlatform
        ELSE CHOOSE j \in later : \A j2 \in later : j >= j2
NextPlat(stu, k) ==
    LET later == {j \in (k + 1)..Len(Platforms) : HasHandle(stu[Platforms[j]])}
    IN  IF later = {} THEN NoPlatform
        ELSE CHOOSE j \in later : \A j2 \in later : j <= j2

\* The orchestration t goes on to the platform after the current one.
ToNextPlatform(tk) ==
    LET np == NextPlat(students[tk.student], tk.plat)
    IN  [tk EXCEPT !.plat = np, !.attempt = 0,
                   !.pc = IF np = NoPlatform THEN "end" ELSE "call"]

\* `continue`, or the end of the loop body: the for statement takes the next
\* attempt of range(max_retries), or ends and the function returns.
NextIterationOneMore(tk) ==
    IF tk.attempt < MaxRetries
    THEN [tk EXCEPT !.attempt = tk.attempt + 1, !.pc = "call"]
    ELSE ToNextPlatform(tk)
NextIteration(tk) ==
    IF tk.attempt + 1 < MaxRetries
    THEN [tk EXCEPT !.attempt = tk.attempt + 1, !.pc = "call"]
    ELSE ToNextPlatform(tk)

\* The model takes the fetch cycles one at a time (a periodic run and an
\* on-demand fetch do not overlap), and its exceptions are those of the
\* adapter and the store calls.

\* An exception leaves the orchestration: the future holds it (worker), or it
\* reaches the caller of fetch_student_stats.
Raised(tk) == [tk EXCEPT !.st = "done", !.exc = TRUE]

\* One loop iteration of _fetch_codeforces_stats / _fetch_leetcode_stats /
\* _fetch_codechef_stats: the adapter call and what follows it up to the
\* sleep, the return or the end of the body.
AdapterCall(t) ==
    /\ task[t].st = "running"
    /\ task[t].pc = "call"
    /\ LET tk == task[t]
           p == Platforms[tk.plat]
       IN  \E x \in web[p] :
           \E r \in AttemptResults(tk.student, p, tk.attempt, tk.cycle, Fetch(p, x)) :
              /\ r.cost <= budget
              /\ budget' = budget - r.cost
              /\ snapshots' = [snapshots EXCEPT
                                 ![tk.student][p] = StoreAppend(@, r.snaps)]
              /\ trace' = [trace EXCEPT ![t][p] = @ \o r.events]
              /\ task' = [task EXCEPT ![t] =
                    CASE r.next = "return" -> ToNextPlatform(tk)
                      [] r.next = "sleep" -> [tk EXCEPT !.pc = "sleep"]
                      [] r.next = "fallthrough" -> NextIteration(tk)
                      [] OTHER -> Raised(tk)]
              /\ odResult' = IF t = OnDemand /\ r.next = "raise"
                             THEN "raised" ELSE odResult
    /\ result' = NoResult
    /\ UNCHANGED <<web, students, roster, phase, bi, batchLog, pauseLog, runResult, cycles,
                   callLog, now, timer>>

\* time.sleep(2) of the retry loop elapses, then `continue`.
Sleep(t) ==
    /\ task[t].st = "running"
    /\ task[t].pc = "sleep"
    /\ trace' = [trace EXCEPT ![t][Platforms[task[t].plat]] = Append(@, SleepEv)]
    /\ task' = [task EXCEPT ![t] = NextIteration(task[t])]
    /\ UNCHANGED <<web, students, snapshots, roster, phase, bi, batchLog, pauseLog,
                   runResult, odResult, cycles, budget,
                   callLog, now, timer, result>>

\* The orchestration has passed its last handle guard and returns:
\* _fetch_student_all_platforms ends (the future completes), or
\* fetch_student_stats returns True.
Return(t) ==
    /\ task[t].st = "running"
    /\ task[t].pc = "end"
    /\ task' = [task EXCEPT ![t].st = "done"]
    /\ odResult' = IF t = OnDemand THEN "True" ELSE odResult
    /\ UNCHANGED <<web, students, snapshots, roster, phase, bi, trace, batchLog,
                   pauseLog, runResult, cycles, budget,
                   callLog, now, timer, result>>

\* The orchestration of student s begins: its first handle guard.
Begin(s, c, n) ==
    LET np == NextPlat(students[s], 0)
    IN  [st |-> "running", student |-> s, plat |-> np, attempt |-> 0,
         pc |-> IF np = NoPlatform THEN "end" ELSE "call",
         cycle |-> c, starts |-> n, exc |-> FALSE]

\* ------------------------------------------------------- on-demand fetch
\* Student.query.get(student_id): the row with that primary key, or None (0).
QueryGetFirst(id) == IF Len(students) > 0 THEN 1 ELSE 0
QueryGet(id) == IF id \in DOMAIN students THEN id ELSE 0

\* fetch_student_stats(student_id): Student.query.get, `return False` for an
\* unknown id, else the platform fetches in the caller's thread.  The query
\* may raise instead (the database does not answer), and the exception
\* leaves the function.
FetchStudentStats(id) ==
    /\ task[OnDemand].st # "running"
    /\ phase = "idle"
    /\ cycles < MaxCycles
    /\ cycles' = cycles + 1
    /\ callLog' = Append(callLog, [op |-> "fetch_student_stats", id |-> id])
    /\ \/ /\ budget' = budget
          /\ IF QueryGet(id) # 0
             THEN /\ task' = [t \in Tasks |-> IF t = OnDemand
                                                 THEN Begin(QueryGet(id), cycles + 1, 1)
                                                 ELSE IdleTask]
                  /\ odResult' = "running"
             ELSE /\ task' = [t \in Tasks |-> IdleTask]
                  /\ odResult' = "False"
       \/ /\ budget > 0
          /\ budget' = budget - 1
          /\ task' = [t \in Tasks |-> IdleTask]
          /\ odResult' = "raised"
    /\ trace' = [t \in Tasks |-> EmptyTrace]
    /\ batchLog' = <<>>
    /\ pauseLog' = <<>>
    /\ runResult' = "none"
    /\ UNCHANGED <<web, students, snapshots, roster, phase, bi, now, timer, result>>

\* --------------------------------------------------------- periodic run
\* students[i:i + batch_size], as the roster places it covers.
BatchOverlapping(r, i) == {k \in 1..Len(r) : i < k /\ k <= i + BatchSize + 1}
Batch(r, i) == {k \in 1..Len(r) : i < k /\ k <= i + BatchSize}

\* `if i + batch_size < len(students):` -- another batch follows.
MoreBatchesInclusive(i, n) == i + BatchSize <= n
MoreBatches(i, n) == i + BatchSize < n

\* `if not students: ... return` -- the run over an empty roster returns.
EmptyRosterRaises == "raised"
EmptyRosterResult == "returned"

Running == {t \in Tasks \ {OnDemand} : task[t].st = "running"}

\* concurrent.futures.wait(futures) returns and the executor shuts down:
\* every future of the batch is done.
BatchJoinedAny(i) == \E t \in Batch(roster, i) : task[t].st = "done"
BatchJoined(i) == \A t \in Batch(roster, i) : task[t].st = "done"

\* A batch loop that ends once the scheduler has been shut down.
LoopAdvanceUntilStopped ==
    /\ bi' = bi + BatchSize
    /\ IF bi + BatchSize < Len(roster) /\ timer = "on"
       THEN phase' = "submit" /\ UNCHANGED runResult
       ELSE phase' = "idle" /\ runResult' = "returned"
\* The for statement over range(0, len(students), batch_size) takes its next
\* value, or ends and fetch_all_stats returns.
LoopAdvance ==
    /\ bi' = bi + BatchSize
    /\ IF bi + BatchSize < Len(roster)
       THEN phase' = "submit" /\ UNCHANGED runResult
       ELSE phase' = "idle" /\ runResult' = "returned"

\* Student.query.all(): the rows of the students table, by their ids.
QueryAllButLast == [k \in 1..(Len(students) - 1) |-> k]
QueryAll == [k \in 1..Len(students) |-> k]

\* A student is registered: a row is added to the students table.
Register(row) ==
    /\ Len(students) < MaxRegistered
    /\ students' = Append(students, row)
    /\ snapshots' = Append(snapshots, [p \in PlatformSet |-> <<>>])
    /\ task' = [t \in 0..(Len(students) + 1) |->
                  IF t \in Tasks THEN task[t] ELSE IdleTask]
    /\ trace' = [t \in 0..(Len(students) + 1) |->
                   IF t \in Tasks THEN trace[t] ELSE EmptyTrace]
    /\ result' = NoResult
    /\ UNCHANGED <<web, roster, phase, bi, batchLog, pauseLog, runResult, odResult,
                   cycles, budget, callLog, now, timer>>

\* The interval trigger (hours=24) fires fetch_all_stats, a day after the
\* previous firing: the roster is loaded; an empty one ends the run at once,
\* else the batch loop begins.  Student.query.all() may raise instead, and
\* the exception leaves the function.
FetchAllStats ==
    /\ timer = "on"
    /\ phase = "idle"
    /\ task[OnDemand].st # "running"
    /\ cycles < MaxCycles
    /\ cycles' = cycles + 1
    /\ callLog' = Append(callLog, [op |-> "fetch_all_stats", id |-> 0])
    /\ now' = now + 1
    /\ task' = [t \in Tasks |-> IdleTask]
    /\ trace' = [t \in Tasks |-> EmptyTrace]
    /\ batchLog' = <<>>
    /\ pauseLog' = <<>>
    /\ bi' = 0
    /\ \/ /\ budget' = budget
          /\ roster' = QueryAll
          /\ IF Len(students) = 0
             THEN phase' = "idle" /\ runResult' = EmptyRosterResult
             ELSE phase' = "submit" /\ runResult' = "running"
       \/ /\ budget > 0
          /\ budget' = budget - 1
          /\ roster' = <<>>
          /\ phase' = "idle"
          /\ runResult' = "query raised"
    /\ odResult' = "none"
    /\ result' = NoResult
    /\ UNCHANGED <<web, students, snapshots, timer>>

\* stop(): `if self.scheduler.running: self.scheduler.shutdown()` -- the
\* scheduler fires no more; a run in progress goes on to its end.
Stop ==
    /\ timer = "on"
    /\ timer' = "stopped"
    /\ UNCHANGED <<web, students, snapshots, roster, phase, bi, task, trace, batchLog,
                   pauseLog, runResult, odResult, cycles, budget, callLog, now, result>>

\* start(): `if not self.scheduler.running:` add the job and start the
\* scheduler; a call on a running scheduler does nothing.
Start ==
    /\ timer # "on"
    /\ timer' = "on"
    /\ UNCHANGED <<web, students, snapshots, roster, phase, bi, task, trace, batchLog,
                   pauseLog, runResult, odResult, cycles, budget, callLog, now, result>>

\* The submit loop: one future per student of the batch, queued in order.
SubmitBatch ==
    /\ phase = "submit"
    /\ phase' = "wait"
    /\ task' = [t \in Tasks |->
                  IF t \in Batch(roster, bi)
                  THEN [task[t] EXCEPT !.st = "queued", !.student = roster[t],
                                       !.cycle = cycles]
                  ELSE task[t]]
    /\ batchLog' = Append(batchLog, Batch(roster, bi))
    /\ UNCHANGED <<web, students, snapshots, roster, bi, trace, pauseLog, runResult,
                   odResult, cycles, budget,
                   callLog, now, timer, result>>

\* A pool thread takes the oldest queued future and begins
\* _fetch_student_all_platforms; the pool has max_workers threads.
WorkerStart(t) ==
    /\ t # OnDemand
    /\ task[t].st = "queued"
    /\ \A u \in Tasks \ {OnDemand} : task[u].st = "queued" => t <= u
    /\ Cardinality(Running) < MaxWorkers
    /\ task' = [task EXCEPT ![t] = Begin(task[t].student, task[t].cycle,
                                         task[t].starts + 1)]
    /\ UNCHANGED <<web, students, snapshots, roster, phase, bi, trace, batchLog,
                   pauseLog, runResult, odResult, cycles, budget,
                   callLog, now, timer, result>>

\* wait(futures) and the executor's exit never ask a future for its result:
\* an exception a worker raised stays in its future.
JoinResultChecked(i) ==
    IF \E t \in Batch(roster, i) : task[t].exc THEN "raised" ELSE "joined"
JoinResult(i) == "joined"

\* wait(futures) returns; the run pauses when another batch follows.
JoinBatch ==
    /\ phase = "wait"
    /\ BatchJoined(bi)
    /\ IF JoinResult(bi) = "raised"
       THEN phase' = "idle" /\ runResult' = "raised" /\ UNCHANGED bi
       ELSE IF MoreBatches(bi, Len(roster))
            THEN phase' = "pause" /\ UNCHANGED <<bi, runResult>>
            ELSE LoopAdvance
    /\ UNCHANGED <<web, students, snapshots, roster, task, trace, batchLog, pauseLog,
                   odResult, cycles, budget, callLog, now, timer, result>>

\* time.sleep(2) between batches elapses.
Pause ==
    /\ phase = "pause"
    /\ pauseLog' = Append(pauseLog, [after |-> Len(batchLog), dur |-> BatchDelay])
    /\ LoopAdvance
    /\ UNCHANGED <<web, students, snapshots, roster, task, trace, batchLog,
                   odResult, cycles, budget,
                   callLog, now, timer, result>>

\* ------------------------------------------------------------- queries
\* The stats_snapshots table as the set of its rows.
AllRows ==
    UNION {{snapshots[s][p][i] : i \in DOMAIN snapshots[s][p]} :
           s \in DOMAIN snapshots, p \in PlatformSet}

\* order_by(StatsSnapshot.timestamp): the sequences that list the rows of
\* `rows` once each, no row before a row of a smaller timestamp.
OrderedByTimestamp(rows) ==
    {q \in [1..Cardinality(rows) -> rows] :
        /\ \A i, j \in DOMAIN q : i # j => q[i] # q[j]
        /\ \A i, j \in DOMAIN q : i < j => q[j].timestamp >= q[i].timestamp}

\* Student.get_latest_stats(platform): the student's rows of the platform,
\* order_by(timestamp.desc()).first() -- a row no other row is newer than,
\* or None.
LatestStatsOldest(s, p) ==
    LET rows == {x \in AllRows : x.student = s /\ x.platform = p}
    IN  IF rows = {} THEN {NoRow}
        ELSE {x \in rows : \A y \in rows : y.timestamp >= x.timestamp}
LatestStats(s, p) ==
    LET rows == {x \in AllRows : x.student = s /\ x.platform = p}
    IN  IF rows = {} THEN {NoRow}
        ELSE {x \in rows : \A y \in rows : y.timestamp <= x.timestamp}

\* Student.get_stats_history(platform, days): cutoff = utcnow() - days; the
\* student's rows of the platform with timestamp >= cutoff,
\* order_by(timestamp.asc()).all().
StatsHistoryStrict(s, p, days) ==
    LET cutoff == now - days
        rows == {x \in AllRows : /\ x.student = s
                                 /\ x.platform = p
                                 /\ x.timestamp > cutoff}
    IN  OrderedByTimestamp(rows)
StatsHistory(s, p, days) ==
    LET cutoff == now - days
        rows == {x \in AllRows : /\ x.student = s
                                 /\ x.platform = p
                                 /\ x.timestamp >= cutoff}
    IN  OrderedByTimestamp(rows)

\* admin_dashboard: per platform, the subquery max(timestamp) grouped by
\* student, joined back on (student_id, timestamp, platform), and the dict
\* {s.student_id: s}, here as the list of its values by student; a student
\* without rows of the platform has no entry (NoRow).
DashboardStats(p) ==
    {d \in [DOMAIN students -> AllRows \cup {NoRow}] :
        \A s \in DOMAIN students :
            LET rows == {x \in AllRows : x.student = s /\ x.platform = p}
            IN  IF rows = {} THEN d[s] = NoRow
                ELSE /\ d[s] \in rows
                     /\ \A y \in rows : y.timestamp <= d[s].timestamp}

\* student_data['cf_stats'] and its siblings in the loop over the students
\* of admin_dashboard: None, unless the student's handle of the platform is
\* set, the dict has a row for the student and the row's fetch_status is
\* 'success'; then the columns the page shows of the platform.
NoStats == [shown |-> FALSE, rating |-> Null, max_rating |-> Null, solved |-> Null,
            easy |-> Null, medium |-> Null, hard |-> Null]
StatsOf(row, p) ==
    IF p = "CF"
    THEN [NoStats EXCEPT !.shown = TRUE, !.rating = row.rating,
                         !.max_rating = row.max_rating, !.solved = row.solved]
    ELSE IF p = "LC"
    THEN [NoStats EXCEPT !.shown = TRUE, !.solved = row.solved, !.easy = row.easy,
                         !.medium = row.medium, !.hard = row.hard]
    ELSE [NoStats EXCEPT !.shown = TRUE, !.rating = row.rating,
                         !.solved = row.solved]
StudentStatsAnyStatus(stu, row, p) ==
    IF HasHandle(stu[p]) /\ row # NoRow THEN StatsOf(row, p) ELSE NoStats
StudentStats(stu, row, p) ==
    IF HasHandle(stu[p]) /\ row # NoRow /\ row.status = "success"
    THEN StatsOf(row, p) ELSE NoStats

\* The queries only read: one made right after another sees the table and
\* the clock the first one saw, so the model takes them one per table and
\* clock reading (result = NoResult).
GetLatestStats(s, p) ==
    /\ result = NoResult
    /\ \E v \in LatestStats(s, p) :
          result' = [op |-> "get_latest_stats", student |-> s, platform |-> p,
                     days |-> 0, row |-> v, rows |-> <<>>, board |-> <<>>]
    /\ UNCHANGED <<web, students, snapshots, roster, phase, bi, task, trace, batchLog,
                   pauseLog, runResult, odResult, cycles, budget, callLog, now, timer>>

GetStatsHistory(s, p, days) ==
    /\ result = NoResult
    /\ \E v \in StatsHistory(s, p, days) :
          result' = [op |-> "get_stats_history", student |-> s, platform |-> p,
                     days |-> days, row |-> NoRow, rows |-> v, board |-> <<>>]
    /\ UNCHANGED <<web, students, snapshots, roster, phase, bi, task, trace, batchLog,
                   pauseLog, runResult, odResult, cycles, budget, callLog, now, timer>>

AdminDashboard(p) ==
    /\ result = NoResult
    /\ \E d \in DashboardStats(p) :
          result' = [op |-> "admin_dashboard", student |-> 0, platform |-> p,
                     days |-> 0, row |-> NoRow, rows |-> d,
                     board |-> [s \in DOMAIN students |->
                                   StudentStats(students[s], d[s], p)]]
    /\ UNCHANGED <<web, students, snapshots, roster, phase, bi, task, trace, batchLog,
                   pauseLog, runResult, odResult, cycles, budget, callLog, now, timer>>

\* A day passes on the clock datetime.utcnow() reads.
Tick ==
    /\ now < MaxTime
    /\ now' = now + 1
    /\ result' = NoResult
    /\ UNCHANGED <<web, students, snapshots, roster, phase, bi, task, trace, batchLog,
                   pauseLog, runResult, odResult, cycles, budget, callLog, timer>>

\* The wall clock is set back a day.
ClockSetBack ==
    /\ now > 0
    /\ now' = now - 1
    /\ result' = NoResult
    /\ UNCHANGED <<web, students, snapshots, roster, phase, bi, task, trace, batchLog,
                   pauseLog, runResult, odResult, cycles, budget, callLog, timer>>

\* ------------------------------------------------------- specifications
HandleRows == [PlatformSet -> HandleValues]

NoHandles == [p \in PlatformSet |-> "None"]

\* The table of the query-level specification: a student with a Codeforces
\* and a LeetCode handle and a student with a Codeforces handle; the
\* adapters and the store answer every call.
QueryTable ==
    << [NoHandles EXCEPT !["CF"] = "user", !["LC"] = "user"],
       [NoHandles EXCEPT !["CF"] = "user"] >>

\* Two students, each with one handle.
PairTable ==
    << [NoHandles EXCEPT !["LC"] = "user"], [NoHandles EXCEPT !["CF"] = "user"] >>

\* The tables of the fetch-level specification: no student, or one student
\* with any handle columns, or the two students of PairTable.
Rosters == {<<>>} \cup {<<row>> : row \in HandleRows} \cup {PairTable}

\* The tables of the batch-level specification: up to MaxRoster students,
\* or ScenarioRoster of them,
\* every HandledEvery-th of them with a Codeforces handle, the others with
\* no handle.
BatchRow(k) ==
    IF k % HandledEvery = 0 THEN [NoHandles EXCEPT !["CF"] = "user"] ELSE NoHandles
BatchRosters ==
    {[k \in 1..n |-> BatchRow(k)] : n \in (0..MaxRoster) \cup {ScenarioRoster}}

InitOn(tbl, faults, answers) ==
    /\ students = tbl
    /\ web = answers
    /\ snapshots = [s \in 1..Len(tbl) |-> [p \in PlatformSet |-> <<>>]]
    /\ roster = <<>>
    /\ phase = "idle"
    /\ bi = 0
    /\ task = [t \in 0..Len(tbl) |-> IdleTask]
    /\ trace = [t \in 0..Len(tbl) |-> EmptyTrace]
    /\ batchLog = <<>>
    /\ pauseLog = <<>>
    /\ runResult = "none"
    /\ odResult = "none"
    /\ cycles = 0
    /\ budget = faults
    /\ callLog = <<>>
    /\ now = 0
    /\ timer = "on"
    /\ result = NoResult

InitWith(tbl, faults) == InitOn(tbl, faults, DefaultWeb)

Init == \E tbl \in Rosters : InitWith(tbl, MaxFaults)

Next ==
    \/ FetchAllStats
    \/ SubmitBatch
    \/ \E t \in Tasks : WorkerStart(t)
    \/ JoinBatch
    \/ \E id \in 1..(Len(students) + 1) : FetchStudentStats(id)
    \/ \E t \in Tasks : AdapterCall(t)
    \/ \E t \in Tasks : Sleep(t)
    \/ \E t \in Tasks : Return(t)

Spec == Init /\ [][Next]_vars

InitBatch == \E tbl \in BatchRosters : InitWith(tbl, MaxBatchFaults)

NextBatch ==
    \/ FetchAllStats
    \/ SubmitBatch
    \/ \E t \in Tasks : WorkerStart(t)
    \/ JoinBatch
    \/ Pause
    \/ \E t \in Tasks : AdapterCall(t)
    \/ \E t \in Tasks : Sleep(t)
    \/ \E t \in Tasks : Return(t)

SpecBatch == InitBatch /\ [][NextBatch]_vars

\* The table of the run-level specification: RunRoster students, the last of
\* every ten with a Codeforces handle, the others with no handle.
RunRow(k) ==
    IF k % BatchSize = 0 THEN [NoHandles EXCEPT !["CF"] = "user"] ELSE NoHandles
RunRosters == {[k \in 1..RunRoster |-> RunRow(k)]}

InitRun == \E tbl \in RunRosters : InitWith(tbl, MaxRunFaults)

NextRun ==
    \/ Start
    \/ Stop
    \/ FetchAllStats
    \/ SubmitBatch
    \/ \E t \in Tasks : WorkerStart(t)
    \/ JoinBatch
    \/ Pause
    \/ \E t \in Tasks : AdapterCall(t)
    \/ \E t \in Tasks : Sleep(t)
    \/ \E t \in Tasks : Return(t)

SpecRun == InitRun /\ [][NextRun]_vars

\* The steps of a run in progress.  The pool's threads are scheduled, the
\* sleeps elapse and the adapters answer within their timeouts.
RunStep ==
    \/ SubmitBatch
    \/ \E t \in Tasks : WorkerStart(t)
    \/ JoinBatch
    \/ Pause
    \/ \E t \in Tasks : AdapterCall(t)
    \/ \E t \in Tasks : Sleep(t)
    \/ \E t \in Tasks : Return(t)

\* The first run over the run-level table, from the timer's firing to the
\* run's end.
NextOneRun ==
    \/ cycles = 0 /\ FetchAllStats
    \/ RunStep

SpecRunFair == InitRun /\ [][NextOneRun]_vars /\ WF_vars(RunStep)

InitQuery == InitWith(QueryTable, 0)

NextQuery ==
    \/ \E id \in 1..(Len(students) + 1) : FetchStudentStats(id)
    \/ \E t \in Tasks : AdapterCall(t)
    \/ \E t \in Tasks : Return(t)
    \/ Tick
    \/ ClockSetBack
    \/ \E s \in DOMAIN students, p \in PlatformSet : GetLatestStats(s, p)
    \/ \E s \in DOMAIN students, p \in PlatformSet, days \in 0..MaxDays :
          GetStatsHistory(s, p, days)
    \/ \E p \in PlatformSet : AdminDashboard(p)

SpecQuery == InitQuery /\ [][NextQuery]_vars

\* The leaderboard-level specification: on-demand fetches of the students of
\* QueryTable that may fail, the clock, and the admin dashboard.
InitBoard == InitWith(QueryTable, MaxBoardFaults)

NextBoard ==
    \/ \E id \in 1..(Len(students) + 1) : FetchStudentStats(id)
    \/ \E t \in Tasks : AdapterCall(t)
    \/ \E t \in Tasks : Sleep(t)
    \/ \E t \in Tasks : Return(t)
    \/ Tick
    \/ \E p \in PlatformSet : AdminDashboard(p)

SpecBoard == InitBoard /\ [][NextBoard]_vars

\* The fetch-level specification with its scheduling, over the table of two
\* students: the pool's threads
\* and the caller's thread run, the sleeps elapse, and the adapter and the
\* store calls return or raise.
InitFair == InitWith(PairTable, MaxFairFaults)
SpecFair == InitFair /\ [][Next]_vars /\ WF_vars(RunStep)

\* The adapter-level specification: one student with a handle of one
\* platform, fetched on demand; the platform's servers give one answer, the
\* same at every attempt, or (ChangingWeb) now one user's data, now
\* another's, now a server error.
OneHandle(p) == [NoHandles EXCEPT ![p] = "user"]
ChangingWeb ==
    [p \in PlatformSet |->
        IF p = "CF"
        THEN {GoodCF, DownCF,
              [profile |-> Http(200, Object("OK", "list", <<User(0, Null)>>)),
               history |-> Http(200, Object("OK", "list", <<>>))]}
        ELSE IF p = "LC"
        THEN {GoodLC, DownLC,
              Http(200, Matched("user", "object", "list",
                                <<Stat("All", 2), Stat("Hard", 1)>>, "object"))}
        ELSE {GoodCC, DownCC, Page(Missing, 1400, Missing, 5, Missing, FALSE)}]

InitAdapter ==
    \E p \in PlatformSet :
        \E answers \in {[DefaultWeb EXCEPT ![p] = {x}] : x \in Responses(p)}
                        \cup {ChangingWeb} :
            InitOn(<<OneHandle(p)>>, MaxAdapterFaults, answers)

NextAdapter ==
    \/ \E id \in 1..(Len(students) + 1) : FetchStudentStats(id)
    \/ \E t \in Tasks : AdapterCall(t)
    \/ \E t \in Tasks : Sleep(t)
    \/ \E t \in Tasks : Return(t)

SpecAdapter == InitAdapter /\ [][NextAdapter]_vars

\* The registration-level specification: periodic runs over a table of one
\* student to which students are added at any time.
InitRegister == InitWith(<<OneHandle("CF")>>, MaxRegisterFaults)

NextRegister ==
    \/ \E row \in {OneHandle("CF"), OneHandle("LC")} : Register(row)
    \/ FetchAllStats
    \/ SubmitBatch
    \/ \E t \in Tasks : WorkerStart(t)
    \/ JoinBatch
    \/ \E t \in Tasks : AdapterCall(t)
    \/ \E t \in Tasks : Sleep(t)
    \/ \E t \in Tasks : Return(t)

SpecRegister == InitRegister /\ [][NextRegister]_vars

\* ------------------------------------------------------------ observers
PlatIndex(p) == CHOOSE j \in 1..Len(Platforms) : Platforms[j] = p

AdapterKinds == {"data", "none", "raise"}

\* The adapter calls of one fetch, in order.
CallsOf(tr) == SelectSeq(tr, LAMBDA e : e.kind \in AdapterKinds)

\* The adapter calls and the delays of one fetch, in order.
Timeline(tr) == SelectSeq(tr, LAMBDA e : e.kind \in AdapterKinds \cup {"sleep"})

\* The store rejected a write of this fetch.
Rejected(tr) == \E i \in DOMAIN tr : tr[i].kind = "reject"

ReturnedData(tr) == \E i \in DOMAIN tr : tr[i].kind = "data"

\* The rows of (s, p) written in cycle c.
CycleSnaps(s, p, c) == SelectSeq(snapshots[s][p], LAMBDA x : x.cycle = c)

Started(t) == task[t].st \in {"running", "done"}

\* The fetch of platform p by orchestration t is over.
FetchEnded(t, p) ==
    /\ Started(t)
    /\ trace[t][p] # <<>>
    /\ \/ PlatIndex(p) < task[t].plat
       \/ PlatIndex(p) = task[t].plat /\ task[t].st = "done"

\* The student orchestration t is over and the store rejected none of its writes.
CleanlyDone(t) ==
    /\ task[t].st = "done"
    /\ \A q \in PlatformSet : ~Rejected(trace[t][q])

\* --------------------------------------------------------------- claims

\* C1 as stated: in a finished cycle every (student, platform) pair with a
\* registered handle has exactly one snapshot of that cycle, 'success' if
\* some attempt returned data and 'failed' otherwise.
C1_Original ==
    \A t \in Tasks : \A p \in PlatformSet :
        (task[t].st = "done" /\ students[task[t].student][p] \notin {"None", ""})
        => LET rows == CycleSnaps(task[t].student, p, task[t].cycle)
           IN  /\ Len(rows) = 1
               /\ rows[1].status = IF ReturnedData(trace[t][p])
                                   THEN "success" ELSE "failed"

\* C1, amended: a pair never gets more than one snapshot in a cycle; when
\* the store rejects no write of the student's orchestration, every pair
\* with a registered handle has exactly one snapshot of the cycle once the
\* orchestration is over, 'success' if some attempt returned data and
\* 'failed' otherwise.
C1_OneSnapshotPerPair ==
    \A t \in Tasks : \A p \in PlatformSet :
        LET s == task[t].student
            rows == IF s = 0 THEN <<>> ELSE CycleSnaps(s, p, task[t].cycle)
        IN  /\ Len(rows) <= 1
            /\ (CleanlyDone(t) /\ students[s][p] \notin {"None", ""})
               => /\ Len(rows) = 1
                  /\ rows[1].status = IF ReturnedData(trace[t][p])
                                      THEN "success" ELSE "failed"

\* C1 witness: an orchestration is over, with no store rejection, that has
\* for one platform a 'success' snapshot after a failed attempt and for
\* another a 'failed' snapshot after three failed attempts.
C1_Witness ==
    \E t \in Tasks : \E p, q \in PlatformSet :
        /\ CleanlyDone(t) /\ p # q
        /\ Len(CallsOf(trace[t][p])) = 2 /\ ReturnedData(trace[t][p])
        /\ Len(CycleSnaps(task[t].student, p, task[t].cycle)) = 1
        /\ Len(CallsOf(trace[t][q])) = 3 /\ ~ReturnedData(trace[t][q])
        /\ Len(CycleSnaps(task[t].student, q, task[t].cycle)) = 1

\* C2: a platform for which the student has no registered handle (the column
\* is NULL or the empty string) never sees an adapter call or a delay, and
\* no snapshot of that (student, platform) is ever stored.
C2_NoHandleNoFetch ==
    /\ \A s \in DOMAIN students : \A p \in PlatformSet :
          students[s][p] \in {"None", ""} => snapshots[s][p] = <<>>
    /\ \A t \in Tasks : \A p \in PlatformSet :
          (task[t].student # 0 /\ students[task[t].student][p] \in {"None", ""})
          => trace[t][p] = <<>>

\* C2 witness: an orchestration is over for a student whose Codeforces column
\* is the empty string and who has another platform fetched and stored.
C2_Witness ==
    \E t \in Tasks : \E p \in PlatformSet :
        /\ task[t].st = "done"
        /\ students[task[t].student]["CF"] = ""
        /\ students[task[t].student][p] = "user"
        /\ snapshots[task[t].student][p] # <<>>
        /\ snapshots[task[t].student]["CF"] = <<>>

\* The failed adapter calls that precede the first one that returned data.
FailsBeforeData(calls) ==
    LET first == CHOOSE i \in DOMAIN calls :
                    /\ calls[i].kind = "data"
                    /\ \A j \in 1..(i - 1) : calls[j].kind # "data"
    IN  first - 1

\* C3 as stated: a fetch whose adapter fails k times (k in 0..2) and then
\* returns data makes exactly k+1 adapter calls, none after the first
\* success, and ends with a 'success' snapshot.
C3_Claim ==
    \A t \in Tasks : \A p \in PlatformSet :
        ReturnedData(trace[t][p])
        => LET calls == CallsOf(trace[t][p])
               rows == CycleSnaps(task[t].student, p, task[t].cycle)
           IN  /\ Len(calls) = FailsBeforeData(calls) + 1
               /\ FetchEnded(t, p) => Len(rows) = 1 /\ rows[1].status = "success"

\* What _save_failed_snapshot is to record for a failed last attempt.
ErrorOf(call) == IF call.kind = "none" THEN "Failed to fetch data" ELSE call.exc

AllFailed(tr) ==
    /\ CallsOf(tr) # <<>>
    /\ \A i \in DOMAIN tr : tr[i].kind # "data"

\* C4 as stated: a fetch in which every attempt fails makes exactly 3
\* adapter calls and ends with one 'failed' snapshot that carries the error
\* of the last attempt.
C4_Original ==
    \A t \in Tasks : \A p \in PlatformSet :
        (FetchEnded(t, p) /\ AllFailed(trace[t][p]))
        => LET calls == CallsOf(trace[t][p])
               rows == CycleSnaps(task[t].student, p, task[t].cycle)
           IN  /\ Len(calls) = 3
               /\ Len(rows) = 1
               /\ rows[1].status = "failed"
               /\ rows[1].error = ErrorOf(calls[3])

\* C4, amended: a fetch in which every attempt fails makes exactly 3 adapter
\* calls; when the store accepts the write, it ends with one 'failed'
\* snapshot that carries the error of the last attempt; when the store
\* rejects it, no 'success' snapshot and at most one snapshot is stored.
C4_ExhaustedRetries ==
    \A t \in Tasks : \A p \in PlatformSet :
        (FetchEnded(t, p) /\ AllFailed(trace[t][p]))
        => LET calls == CallsOf(trace[t][p])
               rows == CycleSnaps(task[t].student, p, task[t].cycle)
           IN  /\ Len(calls) = 3
               /\ Len(rows) <= 1
               /\ \A i \in DOMAIN rows : rows[i].status = "failed"
               /\ ~Rejected(trace[t][p])
                  => /\ Len(rows) = 1
                     /\ rows[1].error = ErrorOf(calls[3])

\* C4 witness: a fetch is over whose adapter returned None, then None, then
\* raised, and its 'failed' snapshot carries the exception's text.
C4_Witness ==
    \E t \in Tasks : \E p \in PlatformSet :
        /\ FetchEnded(t, p)
        /\ ~Rejected(trace[t][p])
        /\ Len(CallsOf(trace[t][p])) = 3
        /\ [i \in 1..3 |-> CallsOf(trace[t][p])[i].kind] = <<"none", "none", "raise">>
        /\ Len(CycleSnaps(task[t].student, p, task[t].cycle)) = 1
        /\ CycleSnaps(task[t].student, p, task[t].cycle)[1].error = "TypeError"

\* C5: in every fetch the adapter calls and the delays alternate, beginning
\* with a call; every delay lasts 2 time units; and a fetch that is over
\* ends with a call, so that n attempts see exactly n-1 delays and no delay
\* follows the last attempt.
C5_DelaysBetweenAttempts ==
    \A t \in Tasks : \A p \in PlatformSet :
        LET line == Timeline(trace[t][p])
        IN  /\ \A i \in DOMAIN line :
                  IF i % 2 = 1
                  THEN line[i].kind # "sleep"
                  ELSE line[i].kind = "sleep" /\ line[i].dur = 2
            /\ Len(line) <= 5
            /\ FetchEnded(t, p) => Len(line) % 2 = 1

\* C5 witness: the LeetCode fetch is over after the adapter raised twice and
\* then returned data, with two delays in between.
C5_Witness ==
    \E t \in Tasks :
        /\ FetchEnded(t, "LC")
        /\ Len(Timeline(trace[t]["LC"])) = 5
        /\ [i \in 1..5 |-> Timeline(trace[t]["LC"])[i].kind]
             = <<"raise", "sleep", "raise", "sleep", "data">>
        /\ snapshots[task[t].student]["LC"] # <<>>

\* The batch a roster place belongs to, batches being numbered from 1.
BatchNo(t) == ((t - 1) \div 10) + 1

RunEnded == phase = "idle" /\ runResult = "returned"

InFlight == {t \in Tasks \ {OnDemand} : task[t].st = "running"}

\* C6: the batches of a run are the consecutive blocks of 10 roster places,
\* the last one possibly shorter; no student is orchestrated twice; and when
\* the run over n students is over it has run ceil(n/10) batches and every
\* student of the roster has been orchestrated exactly once.
C6_BatchPartition ==
    LET n == Len(roster)
    IN  /\ \A j \in DOMAIN batchLog :
              batchLog[j] = {t \in 1..n : 10 * (j - 1) < t /\ t <= 10 * j}
        /\ \A t \in Tasks : task[t].starts <= 1
        /\ RunEnded
           => /\ Len(batchLog) = (n + 9) \div 10
              /\ \A t \in 1..n :
                    /\ task[t].starts = 1
                    /\ task[t].st = "done"
                    /\ Cardinality({j \in DOMAIN batchLog : t \in batchLog[j]}) = 1

\* C6 witness: the run over 23 students is over after batches of 10, 10, 3.
C6_Witness ==
    /\ RunEnded
    /\ Len(roster) = 23
    /\ Len(batchLog) = 3
    /\ [j \in 1..3 |-> Cardinality(batchLog[j])] = <<10, 10, 3>>

\* C7: while any student of an earlier batch has not completed, no student
\* of a later batch has begun its orchestration or seen an adapter call.
C7_BatchesInSequence ==
    \A t, u \in Tasks \ {OnDemand} :
        (/\ BatchNo(u) < BatchNo(t)
         /\ \/ Started(t)
            \/ \E p \in PlatformSet : trace[t][p] # <<>>)
        => task[u].st = "done"

\* C7 witness: the adapter has been called for a student of the second batch.
C7_Witness ==
    \E t \in Tasks \ {OnDemand} :
        /\ BatchNo(t) = 2
        /\ CallsOf(trace[t]["CF"]) # <<>>
        /\ \A u \in Tasks \ {OnDemand} : BatchNo(u) = 1 => task[u].st = "done"

\* C8: at most 5 student orchestrations of a periodic run are in flight.
C8_AtMostFiveInFlight == Cardinality(InFlight) <= 5

\* C8 witness: 5 orchestrations are in flight, one of them in the delay
\* between two attempts, while another student of the batch waits.
C8_Witness ==
    /\ Cardinality(InFlight) = 5
    /\ \E t \in InFlight : task[t].pc = "sleep"
    /\ \E u \in Tasks : task[u].st = "queued"

\* C9: the k-th pause of a run lasts 2 time units and follows batch k; it is
\* taken only when every student of the batches so far has completed and a
\* further batch is to come; no student of batch k+1 begins before pause k;
\* and a run of b batches that is over has paused b-1 times (never, with a
\* single batch or none).
C9_PausesBetweenBatches ==
    LET n == Len(roster)
        b == (n + 9) \div 10
    IN  /\ \A k \in DOMAIN pauseLog :
              /\ pauseLog[k].after = k
              /\ pauseLog[k].dur = 2
              /\ k < b
              /\ \A u \in Tasks \ {OnDemand} : BatchNo(u) <= k => task[u].st = "done"
        /\ phase = "pause"
           => \A u \in Tasks \ {OnDemand} :
                 IF BatchNo(u) <= Len(pauseLog) + 1
                 THEN task[u].st = "done"
                 ELSE ~Started(u)
        /\ \A t \in Tasks \ {OnDemand} : Started(t) => Len(pauseLog) >= BatchNo(t) - 1
        /\ RunEnded => Len(pauseLog) = IF b = 0 THEN 0 ELSE b - 1

\* C9 witness: the run over 23 students is over after exactly 2 pauses.
C9_Witness ==
    /\ RunEnded
    /\ Len(roster) = 23
    /\ Len(pauseLog) = 2

\* C10: with no student in the table a periodic run returns normally at
\* once: no batch, no pause, no orchestration, no adapter call, no snapshot.
C10_EmptyRosterNoOp ==
    Len(students) = 0
    => /\ runResult \in {"none", "returned", "query raised"}
       /\ phase = "idle"
       /\ batchLog = <<>>
       /\ pauseLog = <<>>
       /\ snapshots = <<>>
       /\ \A t \in Tasks : task[t] = IdleTask /\ trace[t] = EmptyTrace

\* C10 witness: a periodic run over the empty table has returned.
C10_Witness ==
    /\ Len(students) = 0
    /\ cycles > 0
    /\ runResult = "returned"
\* The fetch of platform p by orchestration t has used up its three attempts.
Exhausted(t, p) == FetchEnded(t, p) /\ AllFailed(trace[t][p])

\* C11: a periodic run that is over otherwise than by the roster query
\* failing has returned normally and has orchestrated every student of the
\* roster once, whichever fetches exhausted their retries and whichever
\* orchestrations ended with an exception; and a run in progress always
\* reaches its end.
C11_FailureIsolation ==
    /\ [](\/ phase # "idle"
          \/ runResult \in {"none", "query raised"}
          \/ /\ runResult = "returned"
             /\ \A t \in 1..Len(roster) : task[t].st = "done" /\ task[t].starts = 1)
    /\ (runResult = "running") ~> (runResult = "returned")

\* C11 witness: the run is over; a student of the first batch exhausted the
\* retries of its fetch and ended with an exception, and a student of the
\* second batch has been orchestrated after that.
C11_Witness ==
    /\ RunEnded
    /\ \E t \in Tasks \ {OnDemand} :
          /\ BatchNo(t) = 1
          /\ Exhausted(t, "CF")
          /\ task[t].exc
    /\ \E u \in Tasks \ {OnDemand} :
          /\ BatchNo(u) = 2
          /\ task[u].st = "done"
          /\ task[u].starts = 1
\* C12 as stated: whatever happens to the fetch of one platform, an
\* orchestration that is over has fetched every platform the student has a
\* handle for, each with at least one and at most 3 attempts.
C12_Claim ==
    \A t \in Tasks : \A p \in PlatformSet :
        (task[t].st = "done" /\ students[task[t].student][p] \notin {"None", ""})
        => /\ Len(CallsOf(trace[t][p])) >= 1
           /\ Len(CallsOf(trace[t][p])) <= 3
\* The fetch of platform p by orchestration t is in a delay or has been.
Delayed(t, p) == \E i \in DOMAIN trace[t][p] : trace[t][p][i].kind = "sleep"

\* C13 as stated: the platforms of one student are fetched concurrently, so
\* that no platform has gone through a retry delay while another platform
\* the student has a handle for still waits for its first attempt.
C13_Original ==
    \A t \in Tasks : \A p, q \in PlatformSet :
        (/\ task[t].st = "running"
         /\ Delayed(t, p)
         /\ students[task[t].student][q] \notin {"None", ""})
        => CallsOf(trace[t][q]) # <<>>

\* C13, amended: the platforms of one student are fetched one after the
\* other in the order Codeforces, LeetCode, CodeChef: a platform sees its
\* first attempt only when the fetch of every earlier platform the student
\* has a handle for is over, retries and delays included, and those are at
\* most 3 attempts and 2 delays per platform.
C13_PlatformsInSequence ==
    \A t \in Tasks : \A p, q \in PlatformSet :
        (/\ PlatIndex(p) < PlatIndex(q)
         /\ task[t].student # 0
         /\ students[task[t].student][p] \notin {"None", ""}
         /\ trace[t][q] # <<>>)
        => /\ FetchEnded(t, p)
           /\ Len(CallsOf(trace[t][p])) <= 3
           /\ Len(Timeline(trace[t][p])) - Len(CallsOf(trace[t][p])) <= 2

\* C13 witness: the CodeChef fetch of a student makes its first attempt
\* after the LeetCode fetch went through two delays and three attempts.
C13_Witness ==
    \E t \in Tasks :
        /\ task[t].st = "running"
        /\ Len(CallsOf(trace[t]["CC"])) = 1
        /\ Len(Timeline(trace[t]["LC"])) = 5
        /\ FetchEnded(t, "LC")
\* C14 as stated: once the store has rejected a write of a fetch, the adapter
\* is not called again for that (student, platform) in the cycle.
C14_Claim ==
    \A t \in Tasks : \A p \in PlatformSet :
        \A i, j \in DOMAIN trace[t][p] :
            (i < j /\ trace[t][p][i].kind = "reject")
            => trace[t][p][j].kind \notin {"data", "none", "raise"}
\* The last two entries of the call log are on-demand fetches of the same
\* student of the table, and the second one is over.
FetchedTwice(s) ==
    /\ Len(callLog) >= 2
    /\ \A k \in {Len(callLog) - 1, Len(callLog)} :
          callLog[k] = [op |-> "fetch_student_stats", id |-> s]
    /\ s \in DOMAIN students
    /\ task[OnDemand].st = "done"
    /\ task[OnDemand].student = s

\* C15 as stated: after two on-demand fetches of one student in succession
\* every platform the student has a handle for has two snapshots, one of
\* each fetch.
C15_Original ==
    \A s \in DOMAIN students : \A p \in PlatformSet :
        (FetchedTwice(s) /\ students[s][p] \notin {"None", ""})
        => /\ Len(CycleSnaps(s, p, cycles - 1)) = 1
           /\ Len(CycleSnaps(s, p, cycles)) = 1

\* C15, amended: every step leaves the rows of every (student, platform) as
\* they were, or adds one row after them; and after two on-demand fetches of
\* one student in succession, a platform has one row of each fetch whose
\* writes the store accepted: the row of the second fetch, when the store
\* rejected none of its writes, comes after the row of the first, which is
\* still there.
C15_AppendOnly ==
    /\ [][\A s \in DOMAIN students : \A p \in PlatformSet :
            /\ Len(snapshots'[s][p]) \in {Len(snapshots[s][p]), Len(snapshots[s][p]) + 1}
            /\ \A i \in DOMAIN snapshots[s][p] : snapshots'[s][p][i] = snapshots[s][p][i]
         ]_vars
    /\ [](\A s \in DOMAIN students : \A p \in PlatformSet :
            (FetchedTwice(s) /\ CleanlyDone(OnDemand)
                /\ students[s][p] \notin {"None", ""})
            => LET rows == snapshots[s][p]
                   n == Len(rows)
               IN  /\ n >= 1
                   /\ rows[n].cycle = cycles
                   /\ \A i \in 1..(n - 1) : rows[i].cycle < cycles
                   /\ n = Len(CycleSnaps(s, p, cycles - 1)) + 1
                          + Len(SelectSeq(rows, LAMBDA x : x.cycle < cycles - 1)))

\* C15 witness: two on-demand fetches of one student in succession are over
\* and have left two rows for each of two platforms, the first fetch's
\* 'failed' row before the second fetch's 'success' row.
C15_Witness ==
    \E s \in DOMAIN students : \E p, q \in PlatformSet :
        /\ FetchedTwice(s)
        /\ p # q
        /\ Len(snapshots[s][p]) = 2
        /\ Len(snapshots[s][q]) = 2
        /\ snapshots[s][p][1].status = "failed"
        /\ snapshots[s][p][2].status = "success"
        /\ snapshots[s][p][1].cycle = 1
        /\ snapshots[s][p][2].cycle = 2
\* The rows of (s, p) in the table.
PairRows(s, p) == {snapshots[s][p][i] : i \in DOMAIN snapshots[s][p]}

\* r is a row of (s, p) no row of (s, p) has a later timestamp than, or no
\* row at all when the pair has none.
IsLatest(r, s, p) ==
    IF PairRows(s, p) = {} THEN r = NoRow
    ELSE /\ r \in PairRows(s, p)
         /\ \A y \in PairRows(s, p) : y.timestamp <= r.timestamp

\* C16: whatever get_latest_stats returns for a student and a platform, and
\* whatever the dashboard's latest-stats lookup holds for a student, is a
\* snapshot of that pair with the maximum timestamp among the pair's
\* snapshots (nothing, when the pair has none).
C16_LatestIsMaxTimestamp ==
    /\ result.op = "get_latest_stats"
       => IsLatest(result.row, result.student, result.platform)
    /\ result.op = "admin_dashboard"
       => \A s \in DOMAIN students : IsLatest(result.rows[s], s, result.platform)

\* C16 witness: get_latest_stats has returned, of the two snapshots of a
\* pair, the one that was appended first: the clock was set back before the
\* second one was written.
C16_Witness ==
    /\ result.op = "get_latest_stats"
    /\ Len(snapshots[result.student][result.platform]) = 2
    /\ result.row = snapshots[result.student][result.platform][1]
    /\ snapshots[result.student][result.platform][2].timestamp < result.row.timestamp

\* C17: get_stats_history(platform, days) returns the student's snapshots of
\* the platform whose timestamp is not older than `days` days before now,
\* each once, in ascending order of timestamp, and nothing else.
C17_HistoryWindow ==
    result.op = "get_stats_history"
    => LET s == result.student
           p == result.platform
           out == result.rows
           kept == {x \in PairRows(s, p) : now - x.timestamp <= result.days}
       IN  /\ {out[i] : i \in DOMAIN out} = kept
           /\ Len(out) = Cardinality(kept)
           /\ \A i, j \in DOMAIN out : i < j => out[i].timestamp <= out[j].timestamp
           /\ \A i \in DOMAIN out : out[i].student = s /\ out[i].platform = p

\* C17 witness: get_stats_history with a window of one day has returned the
\* newer of the two snapshots of a pair and left out the older one, which
\* is two days old, while the student has snapshots of another platform.
C17_Witness ==
    /\ result.op = "get_stats_history"
    /\ result.days = 1
    /\ Len(snapshots[result.student][result.platform]) = 2
    /\ result.rows = <<snapshots[result.student][result.platform][2]>>
    /\ snapshots[result.student][result.platform][1].timestamp = now - 2
    /\ \E q \in PlatformSet :
          q # result.platform /\ snapshots[result.student][q] # <<>>
\* The last entry point called is fetch_student_stats(id).
LastFetchOf(id) ==
    /\ callLog # <<>>
    /\ callLog[Len(callLog)] = [op |-> "fetch_student_stats", id |-> id]

\* C18: during and after fetch_student_stats(id), the only orchestration is
\* the one of student id, in the caller's thread: the adapter has been called
\* and snapshots of the cycle exist only for platforms student id has a
\* handle for; every fetch makes at most 3 attempts with a delay of 2 units
\* between two attempts, as in a periodic run; no batch has been submitted
\* and no inter-batch pause taken.
C18_OnDemandOneStudent ==
    \A id \in 1..(Len(students) + 1) :
        LastFetchOf(id)
        => /\ task[OnDemand].student \in {0, id}
           /\ \A t \in Tasks \ {OnDemand} : task[t] = IdleTask /\ trace[t] = EmptyTrace
           /\ \A s \in DOMAIN students : \A p \in PlatformSet :
                 CycleSnaps(s, p, cycles) # <<>>
                 => s = id /\ students[id][p] \notin {"None", ""}
           /\ \A p \in PlatformSet :
                 LET line == Timeline(trace[OnDemand][p])
                 IN  /\ line # <<>>
                        => id \in DOMAIN students /\ students[id][p] \notin {"None", ""}
                     /\ Len(CallsOf(line)) <= 3
                     /\ \A i \in 1..(Len(line) - 1) :
                           (line[i].kind = "sleep") # (line[i + 1].kind = "sleep")
                     /\ \A i \in DOMAIN line : line[i].kind = "sleep" => line[i].dur = 2
           /\ phase = "idle"
           /\ batchLog = <<>>
           /\ pauseLog = <<>>
           /\ odResult = "True" => task[OnDemand].student = id
           /\ odResult = "False" => id \notin DOMAIN students

\* C18 witness: fetch_student_stats(2) has returned True in a table of two
\* students with a handle each; the fetch of student 2 took two attempts and
\* left its snapshot, and student 1 has no snapshot.
C18_Witness ==
    /\ LastFetchOf(2)
    /\ odResult = "True"
    /\ Len(students) = 2
    /\ Len(CallsOf(trace[OnDemand]["CF"])) = 2
    /\ Len(CycleSnaps(2, "CF", cycles)) = 1
    /\ students[1]["LC"] = "user"
    /\ \A p \in PlatformSet : snapshots[1][p] = <<>>
\* C19 as stated: whatever the adapters and the store do, no exception leaves
\* fetch_all_stats: a periodic firing never ends otherwise than by returning.
C19_Claim == runResult \notin {"raised", "query raised"}

\* C20 as stated: once the scheduler is stopped during a run, the batch in
\* flight is the run's last: no further batch is submitted.
C20_Original == [][timer = "stopped" /\ batchLog # <<>> => batchLog' = batchLog]_vars

\* C20: stop() aborts nothing -- it changes neither the batch loop's
\* position nor any orchestration nor the table; while the scheduler is
\* stopped no run is fired; the run in progress goes on: the batch loop is
\* never held back by the stop, and a run that has returned, stopped on its
\* way or not, has submitted every batch of its roster and completed every
\* student's orchestration.
C20_StopLetsRunFinish ==
    /\ [][timer = "on" /\ timer' = "stopped"
           => UNCHANGED <<phase, bi, task, trace, snapshots, batchLog, pauseLog,
                          runResult, roster>>]_vars
    /\ [][timer = "stopped" => cycles' = cycles /\ callLog' = callLog]_vars
    /\ [][timer = "stopped" /\ phase = "pause" /\ phase' # "pause"
           => phase' = "submit"]_vars
    /\ [](RunEnded
           => /\ Len(batchLog) = (Len(roster) + BatchSize - 1) \div BatchSize
              /\ \A t \in 1..Len(roster) : task[t].st = "done")

\* C20 witness: the scheduler has been stopped during the first batch of a
\* run over 11 students or more, while the orchestration of student 10 is
\* between two attempts of its fetch.
C20_Witness ==
    /\ timer = "stopped"
    /\ phase = "wait"
    /\ bi = 0
    /\ Len(roster) > BatchSize
    /\ task[10].st = "running"
    /\ Len(CallsOf(trace[10]["CF"])) = 1
\* C21 as stated: no call of an adapter's fetch ends with an exception --
\* whatever the platform answers, the adapter returns its dict or None.
C21_Claim ==
    \A t \in Tasks : \A p \in PlatformSet :
        \A i \in DOMAIN trace[t][p] : trace[t][p][i].kind # "raise"

\* C22: the roster of a periodic run is the students table as it is when
\* the run begins, and it stays so to the run's end; the run orchestrates
\* the students of its roster and no other: a student registered since has
\* no orchestration, no adapter call and no snapshot of the cycle; a run that
\* has returned has orchestrated every student of its roster, so the next
\* run orchestrates the students registered during this one.
C22_RosterAtTrigger ==
    /\ [][cycles' # cycles /\ runResult' \in {"running", "returned"}
           => roster' = [k \in 1..Len(students) |-> k]]_vars
    /\ [][runResult = "running" => roster' = roster]_vars
    /\ [](\A t \in Tasks \ {OnDemand} :
             IF t \in DOMAIN roster
             THEN /\ task[t].st # "idle" => task[t].student = roster[t]
                  /\ RunEnded => task[t].st = "done"
             ELSE /\ task[t] = IdleTask
                  /\ trace[t] = EmptyTrace
                  /\ \A p \in PlatformSet : CycleSnaps(t, p, cycles) = <<>>)

\* C22 witness: a run over one student is in progress, an adapter call made,
\* and the table holds a second student.
C22_Witness ==
    /\ runResult = "running"
    /\ Len(roster) = 1
    /\ Len(students) > 1
    /\ trace[1]["CF"] # <<>>

\* C23 as stated: once the orchestration of a student is over, a write the
\* store rejected for one of the student's platforms has kept none of the
\* student's other platforms from being fetched.
C23_Claim ==
    \A t \in Tasks : \A p, q \in PlatformSet :
        (/\ task[t].st = "done"
         /\ Rejected(trace[t][p])
         /\ q # p
         /\ students[task[t].student][q] \notin {"None", ""})
        => CallsOf(trace[t][q]) # <<>>

LastData(tr) == CallsOf(tr)[Len(CallsOf(tr))].data

\* C25: a 'success' row of the cycle's fetch of (student, platform) follows
\* an adapter call that returned a dict, the last call of the fetch, and
\* holds that dict's values: rating, max_rating and solved for Codeforces;
\* solved = total_solved, easy, medium, hard and no rating for LeetCode;
\* rating and solved for CodeChef.  When Codeforces answers with rating
\* 1500, highest rating 1600 and 42 solved problems and the store accepts
\* the write, a student with a Codeforces handle only has, after the fetch,
\* one row of the cycle, 'success' with these values, and no LeetCode or
\* CodeChef row.
C25_SuccessStoresPayload ==
    \A t \in Tasks : \A p \in PlatformSet :
        LET s == task[t].student
            rows == IF s = 0 THEN <<>> ELSE CycleSnaps(s, p, task[t].cycle)
        IN  /\ \A i \in DOMAIN rows :
                  rows[i].status = "success"
                  => /\ CallsOf(trace[t][p]) # <<>>
                     /\ CallsOf(trace[t][p])[Len(CallsOf(trace[t][p]))].kind = "data"
                     /\ LET d == LastData(trace[t][p])
                        IN  IF p = "CF"
                            THEN /\ rows[i].rating = d.rating
                                 /\ rows[i].max_rating = d.max_rating
                                 /\ rows[i].solved = d.solved
                            ELSE IF p = "LC"
                            THEN /\ rows[i].rating = Null
                                 /\ rows[i].solved = d.total_solved
                                 /\ rows[i].easy = d.easy
                                 /\ rows[i].medium = d.medium
                                 /\ rows[i].hard = d.hard
                            ELSE /\ rows[i].rating = d.rating
                                 /\ rows[i].solved = d.solved
            /\ (/\ p = "CF"
                /\ web["CF"] = {ScenarioCF}
                /\ FetchEnded(t, "CF")
                /\ ~Rejected(trace[t]["CF"])
                /\ students[s] = OneHandle("CF"))
               => /\ Len(rows) = 1
                  /\ rows[1].status = "success"
                  /\ rows[1].rating = 1500
                  /\ rows[1].max_rating = 1600
                  /\ rows[1].solved = 42
                  /\ snapshots[s]["LC"] = <<>>
                  /\ snapshots[s]["CC"] = <<>>

\* C25 witness: the on-demand fetch of the student with a Codeforces handle
\* only has returned; the adapter was called once and the table holds one
\* row, with rating 1500, max_rating 1600 and solved 42.
C25_Witness ==
    /\ odResult = "True"
    /\ students = <<OneHandle("CF")>>
    /\ Len(CallsOf(trace[OnDemand]["CF"])) = 1
    /\ Len(snapshots[1]["CF"]) = 1
    /\ snapshots[1]["CF"][1].status = "success"
    /\ snapshots[1]["CF"][1].rating = 1500
    /\ snapshots[1]["CF"][1].max_rating = 1600
    /\ snapshots[1]["CF"][1].solved = 42
    /\ snapshots[1]["LC"] = <<>>
    /\ snapshots[1]["CC"] = <<>>

\* C26 as stated: when a student's orchestration is over, every platform
\* fetch it made has its snapshot in the table.
C26_Original ==
    \A t \in Tasks : \A p \in PlatformSet :
        (task[t].st = "done" /\ CallsOf(trace[t][p]) # <<>>)
        => CycleSnaps(task[t].student, p, task[t].cycle) # <<>>

\* C26, amended: a row is appended only in the step that completes an
\* adapter call of the fetch of its student and platform, by the
\* orchestration that made the call; and as soon as the fetch of a platform
\* is over -- before the fetch of the student's next platform begins, before
\* the orchestration returns, before the batch is joined -- its row is in
\* the table, unless the store rejected a write of the fetch.
C26_SynchronousAppend ==
    /\ [][\A s \in DOMAIN snapshots : \A p \in PlatformSet :
            snapshots'[s][p] # snapshots[s][p]
            => \E t \in Tasks :
                  /\ task[t].st = "running"
                  /\ task[t].student = s
                  /\ task[t].pc = "call"
                  /\ Platforms[task[t].plat] = p
                  /\ Len(CallsOf(trace'[t][p])) = Len(CallsOf(trace[t][p])) + 1]_vars
    /\ [](\A t \in Tasks : \A p \in PlatformSet :
             (FetchEnded(t, p) /\ ~Rejected(trace[t][p]))
             => Len(CycleSnaps(task[t].student, p, task[t].cycle)) = 1)
    /\ [](phase \in {"idle", "pause"}
           => \A t \in Tasks \ {OnDemand} : task[t].st \in {"idle", "done"})

\* C26 witness: the Codeforces fetch of a student is over after three failed
\* attempts and its 'failed' row is in the table, while the orchestration
\* has yet to call the LeetCode adapter.
C26_Witness ==
    \E t \in Tasks :
        /\ task[t].st = "running"
        /\ FetchEnded(t, "CF")
        /\ Len(CallsOf(trace[t]["CF"])) = 3
        /\ Len(CycleSnaps(task[t].student, "CF", task[t].cycle)) = 1
        /\ Platforms[task[t].plat] = "LC"
        /\ trace[t]["LC"] = <<>>

\* The adapter calls of the current cycle, over the orchestrations in T.
RECURSIVE CallCount(_)
CallCount(T) ==
    IF T = {} THEN 0
    ELSE LET t == CHOOSE u \in T : TRUE
         IN  Len(CallsOf(trace[t]["CF"])) + Len(CallsOf(trace[t]["LC"]))
             + Len(CallsOf(trace[t]["CC"])) + CallCount(T \ {t})

\* The handles registered for the students in the roster places R.
HandleCount(R) ==
    Cardinality({<<k, p>> \in R \X PlatformSet : students[k][p] \notin {"None", ""}})

\* C27: a periodic run in progress comes to its end and an on-demand fetch
\* in progress returns or raises; a fetch makes at most 3 adapter calls and
\* takes at most 2 delays; a periodic run over a roster with h handles makes
\* at most 3*h adapter calls, and an on-demand fetch at most 3 per handle of
\* its student.
C27_Termination ==
    /\ (runResult = "running") ~> (runResult # "running")
    /\ (odResult = "running") ~> (odResult # "running")
    /\ [](\A t \in Tasks : \A p \in PlatformSet :
             /\ Len(CallsOf(trace[t][p])) <= 3
             /\ Len(SelectSeq(trace[t][p], LAMBDA e : e.kind = "sleep")) <= 2)
    /\ [](CallCount(DOMAIN roster) <= 3 * HandleCount(DOMAIN roster))
    /\ [](task[OnDemand].student # 0
           => CallCount({OnDemand}) <= 3 * HandleCount({task[OnDemand].student}))

\* C27 witness: a periodic run over a roster with two handles has returned
\* after 4 adapter calls, 3 of them and 2 delays in one fetch.
C27_Witness ==
    /\ RunEnded
    /\ HandleCount(DOMAIN roster) = 2
    /\ CallCount(DOMAIN roster) = 4
    /\ \E t \in DOMAIN roster : \E p \in PlatformSet :
          Len(SelectSeq(trace[t][p], LAMBDA e : e.kind = "sleep")) = 2
\* The user.info call succeeded: it answered 200 with status OK and a result
\* whose first element is a user object.
ProfileSucceeds(x) ==
    /\ x.profile \in GoodProfiles
    /\ x.profile.body.items[1].shape = "object"

\* user.status answered with a failure response: a status code other than
\* 200, or 200 and a JSON object whose status field is not OK.
HistoryFailureResponse(h) ==
    /\ h.net = "ok"
    /\ \/ h.code # 200
       \/ h.body.shape = "object" /\ h.body.status \notin {"OK", "absent"}

\* The user.status exchange ended in an exception (the transport failed) or
\* answered 200 with a malformed payload: not JSON, not an object, without
\* status, or OK without a well-formed list of submissions.
HistoryBroken(h) ==
    \/ h.net = "error"
    \/ /\ h.code = 200
       /\ \/ h.body.shape # "object"
          \/ h.body.status = "absent"
          \/ /\ h.body.status = "OK"
             /\ \/ h.body.result # "list"
                \/ \E i \in DOMAIN h.body.items :
                       SubmissionFault(h.body.items[i]) # "None"

\* C28: when the Codeforces servers give one answer x whose profile call
\* succeeds, (1) if the submission-history call of x is answered with a
\* non-200 status or a non-OK status field, every adapter call of a
\* Codeforces fetch returns a dict with the profile's rating and solved = 0,
\* and once the fetch is over, the store not having rejected the write, the
\* cycle's only row of the fetch is 'success' with solved = 0 and that rating;
\* (2) an adapter call hands back something other than a dict only if the
\* submission-history exchange raised or answered 200 with a malformed
\* payload.
C28_HistoryFailureTolerated ==
    \A x \in web["CF"] : \A t \in Tasks :
        (web["CF"] = {x} /\ ProfileSucceeds(x) /\ task[t].student # 0)
        => LET calls == CallsOf(trace[t]["CF"])
               rows == CycleSnaps(task[t].student, "CF", task[t].cycle)
               user == x.profile.body.items[1]
               rating == IF user.rating = Missing THEN 0 ELSE user.rating
           IN  /\ HistoryFailureResponse(x.history)
                  => /\ \A i \in DOMAIN calls :
                            /\ calls[i].kind = "data"
                            /\ calls[i].data.solved = 0
                            /\ calls[i].data.rating = rating
                     /\ (FetchEnded(t, "CF") /\ ~Rejected(trace[t]["CF"]))
                        => /\ Len(rows) = 1
                           /\ rows[1].status = "success"
                           /\ rows[1].solved = 0
                           /\ rows[1].rating = rating
               /\ (\E i \in DOMAIN calls : calls[i].kind # "data")
                  => HistoryBroken(x.history)

\* C28 witness: user.info answers with rating 1500 and user.status with
\* status FAILED (and a list holding an accepted submission); the on-demand
\* fetch has returned and the table holds one 'success' row with rating 1500
\* and solved 0.
C28_Witness ==
    /\ odResult = "True"
    /\ web["CF"] = {[profile |-> Http(200, Object("OK", "list", <<User(1500, 1600)>>)),
                     history |-> Http(200, Object("FAILED", "list", <<Accepted(1)>>))]}
    /\ Len(snapshots[1]["CF"]) = 1
    /\ snapshots[1]["CF"][1].status = "success"
    /\ snapshots[1]["CF"][1].rating = 1500
    /\ snapshots[1]["CF"][1].solved = 0

\* C29: what the dashboard shows for a student and a platform is taken from
\* the row its latest-stats lookup holds, a row of the pair with the maximum
\* timestamp: stats are shown exactly when the student has the handle and
\* that row is 'success', and then they are that row's values; when every
\* row of the pair with the maximum timestamp is 'failed' nothing is shown,
\* also when the pair has earlier 'success' rows.
C29_LatestFailedShowsNothing ==
    result.op = "admin_dashboard"
    => \A s \in DOMAIN students :
          LET p == result.platform
              row == result.rows[s]
              shown == result.board[s]
              newest == {x \in PairRows(s, p) :
                            \A y \in PairRows(s, p) : y.timestamp <= x.timestamp}
          IN  /\ shown.shown <=> /\ HasHandle(students[s][p])
                                 /\ row \in newest
                                 /\ row.status = "success"
              /\ shown.shown => shown = StatsOf(row, p)
              /\ (\A x \in newest : x.status = "failed") => shown = NoStats

\* C29 witness: a student's Codeforces fetch succeeded on one day and failed
\* on a later day; the dashboard has read the table and shows no Codeforces
\* stats for the student.
C29_Witness ==
    /\ result.op = "admin_dashboard"
    /\ result.platform = "CF"
    /\ \E s \in DOMAIN students :
          /\ Len(snapshots[s]["CF"]) = 2
          /\ snapshots[s]["CF"][1].status = "success"
          /\ snapshots[s]["CF"][2].status = "failed"
          /\ snapshots[s]["CF"][1].timestamp < snapshots[s]["CF"][2].timestamp
          /\ result.board[s] = NoStats

\* C30 as stated: when fetch_student_stats(id) is over, its lookup having
\* answered, then for an id that matches no student it has returned False,
\* called no adapter and appended no snapshot; for an existing student it
\* has returned True and every platform the student has a handle for has
\* been fetched, whatever the status of the snapshots.
C30_Claim ==
    \A id \in 1..(Len(students) + 1) :
        (LastFetchOf(id) /\ odResult # "running")
        => /\ (id \notin DOMAIN students /\ odResult # "raised")
              => /\ odResult = "False"
                 /\ \A t \in Tasks : trace[t] = EmptyTrace
                 /\ \A s \in DOMAIN students : \A p \in PlatformSet :
                       CycleSnaps(s, p, cycles) = <<>>
           /\ (id \in DOMAIN students /\ task[OnDemand].student = id)
              => /\ odResult = "True"
                 /\ \A p \in PlatformSet :
                       HasHandle(students[id][p]) => FetchEnded(OnDemand, p)

====
